---- MODULE Spec2Model ----
(***************************************************************************)
(* Queue-paced multiplier generation of aviator-backend (src/index.js,     *)
(* lines 751-1443): the multiplier pipeline, the round sequencer and the   *)
(* batch controller, with the persistence store and the socket server as   *)
(* environment.                                                            *)
(*                                                                         *)
(* Node runs every handler to its next await without interruption, so one  *)
(* action is one run of a handler from one await to the next.              *)
(*                                                                         *)
(* Multipliers are integers in thousandths (1.01 is 1010). A result of     *)
(* Math.random() is an integer u in 0..9999 standing for u / 10000.        *)
(***************************************************************************)
EXTENDS Integers, Sequences, FiniteSets, TLC

\* ------------------------------------------------------------------------
\* Bounds of the model
\* ------------------------------------------------------------------------

\* Rounds per batch. The source sets 100 (src/index.js:768); the model runs
\* the same loop with a small batch so that whole batches can be enumerated.
BATCH_SIZE == 2

\* Invocations of the trigger handlers (timer tick, manual trigger,
\* force-generation) in one behaviour; all of them may overlap.
MaxCalls == 2

\* Number of rows of DrawTable the generation loop chooses from.
NDraws == 2

\* Largest value Date.now() returns.
MaxClock == 1

\* Runs of generateCrashMultiplier in one behaviour of PipelineSpec.
MaxRuns == 2

\* Batches the generation loop produces in one behaviour of TimerSpec.
MaxBatches == 2

\* Queue length up to which a batch is generated. The source sets 5
\* (src/index.js:770); the model keeps it below BATCH_SIZE, as the source does.
QUEUE_THRESHOLD == 1

\* ------------------------------------------------------------------------
\* Program constants
\* ------------------------------------------------------------------------

\* let currentRound = 1000
DefaultCurrentRound == 1000

\* capacity of recentMultipliers
N_HIST == 100

Procs == 1..MaxCalls

\* Contents of the multipliers table when the process starts.
InitialStores == { {}, 1..BATCH_SIZE, (DefaultCurrentRound + 1)..(DefaultCurrentRound + BATCH_SIZE) }

\* ------------------------------------------------------------------------
\* Pure helpers
\* ------------------------------------------------------------------------

Max(a, b) == IF a >= b THEN a ELSE b

Min(a, b) == IF a <= b THEN a ELSE b

\* Math.random() * span, span in thousandths
Scale(u, span) == (u * span) \div 10000

\* (Math.random() - 0.5) * span, span in thousandths
Centered(u, span) == ((u - 5000) * span) \div 10000

\* Math.round(m * 100) / 100
Round2(m) == ((m + 5) \div 10) * 10

\* arr.slice(-k)
Last(s, k) == IF Len(s) <= k THEN s ELSE SubSeq(s, Len(s) - k + 1, Len(s))

\* arr.filter(pred).length for the predicates the pipeline uses
CountLE(s, bound) == Cardinality({i \in 1..Len(s) : s[i] <= bound})

CountGE(s, bound) == Cardinality({i \in 1..Len(s) : s[i] >= bound})

CountEq(s, v) == Cardinality({i \in 1..Len(s) : s[i] = v})

\* A window that drops the newest entry when it is full.
PushHistoryNewestOut(hist, m) ==
    LET h == Append(hist, m)
    IN  IF Len(h) > N_HIST THEN SubSeq(h, 1, N_HIST) ELSE h

\* recentMultipliers.push(m); if (length > 100) shift()
PushHistory(hist, m) ==
    LET h == Append(hist, m)
    IN  IF Len(h) > N_HIST THEN Tail(h) ELSE h

\* Math.sin(round * 0.1) * 0.05 in thousandths (Bhaskara's approximation of
\* the sine, exact to less than a tenth of a thousandth after scaling).
MicroWave(round) ==
    LET x  == (round * 100) % 6283
        y  == IF x > 3141 THEN x - 3141 ELSE x
        pr == y * (3142 - y)
        s  == (16 * pr * 50) \div (5 * 3142 * 3142 - 4 * pr)
    IN  IF x > 3141 THEN 0 - s ELSE s

\* ------------------------------------------------------------------------
\* The multiplier pipeline
\* ------------------------------------------------------------------------

\* One record holds the results of the Math.random() calls of one run of
\* generateCrashMultiplier, one field per call site.
DrawTable ==
    << [entropy |-> 0, hugeR |-> 5000, hugeV |-> 0, distR |-> 9000, distV |-> 0,
        pattern |-> 0, damp |-> 0, relief |-> 0, micro |-> 0],
       [entropy |-> 5000, hugeR |-> 5000, hugeV |-> 5000, distR |-> 4000, distV |-> 5000,
        pattern |-> 5000, damp |-> 5000, relief |-> 5000, micro |-> 5000],
       [entropy |-> 9999, hugeR |-> 0, hugeV |-> 9999, distR |-> 0, distV |-> 9999,
        pattern |-> 9999, damp |-> 9999, relief |-> 9999, micro |-> 9999],
       [entropy |-> 9999, hugeR |-> 9999, hugeV |-> 0, distR |-> 9999, distV |-> 9999,
        pattern |-> 9999, damp |-> 0, relief |-> 0, micro |-> 0] >>

Draws == {DrawTable[i] : i \in 1..Min(NDraws, Len(DrawTable))}

\* 0 stands for null
maybeHugeMultiplier(r, v) ==
    IF r < 1 THEN 30000 + Scale(v, 20000)
    ELSE IF r < 5 THEN 20000 + Scale(v, 10000)
    ELSE IF r < 20 THEN 10000 + Scale(v, 10000)
    ELSE 0

generateEnhancedDistribution(r, v) ==
    IF r < 2 THEN 40000 + Scale(v, 10000)
    ELSE IF r < 10 THEN 25000 + Scale(v, 15000)
    ELSE IF r < 50 THEN 15000 + Scale(v, 10000)
    ELSE IF r < 200 THEN 8000 + Scale(v, 7000)
    ELSE IF r < 800 THEN 4000 + Scale(v, 4000)
    ELSE IF r < 2500 THEN 2000 + Scale(v, 2000)
    ELSE IF r < 5500 THEN 1300 + Scale(v, 700)
    ELSE 1010 + Scale(v, 290)

\* Loss patterns that force a decent multiplier from 3 floor values in the
\* last 8 on, not from 2.
applyEnhancedLossPatternsThreeCrashes(multiplier, round, hist, d) ==
    IF Len(hist) < 8
    THEN Max(1010, multiplier + Centered(d.pattern, 200))
    ELSE LET last8  == Last(hist, 8)
             last12 == Last(hist, 12)
             consecutiveLows    == CountLE(last8, 1300)
             consecutiveHighs   == CountGE(last12, 15000)
             consecutiveCrashes == CountEq(last8, 1010)
             damped == IF consecutiveHighs >= 3 /\ multiplier > 10000
                       THEN (multiplier * (3000 + Scale(d.damp, 4000))) \div 10000
                       ELSE multiplier
         IN  IF consecutiveCrashes >= 3 THEN 2000 + Scale(d.pattern, 3000)
             ELSE IF consecutiveLows >= 6 THEN 3000 + Scale(d.pattern, 4000)
             ELSE Max(1010, damped + Centered(d.pattern, 300) + MicroWave(round))

applyEnhancedLossPatterns(multiplier, round, hist, d) ==
    IF Len(hist) < 8
    THEN Max(1010, multiplier + Centered(d.pattern, 200))
    ELSE LET last8  == Last(hist, 8)
             last12 == Last(hist, 12)
             consecutiveLows    == CountLE(last8, 1300)
             consecutiveHighs   == CountGE(last12, 15000)
             consecutiveCrashes == CountEq(last8, 1010)
             damped == IF consecutiveHighs >= 3 /\ multiplier > 10000
                       THEN (multiplier * (3000 + Scale(d.damp, 4000))) \div 10000
                       ELSE multiplier
         IN  IF consecutiveCrashes >= 2 THEN 2000 + Scale(d.pattern, 3000)
             ELSE IF consecutiveLows >= 6 THEN 3000 + Scale(d.pattern, 4000)
             ELSE Max(1010, damped + Centered(d.pattern, 300) + MicroWave(round))

\* Relief tiers that test the run of lows before the run of very lows.
ReliefValueLowRunFirst(multiplier, hist, d) ==
    LET last5  == Last(hist, 5)
        last10 == Last(hist, 10)
        last15 == Last(hist, 15)
        consecutiveLows     == CountLE(last5, 1300)
        consecutiveVeryLows == CountLE(last5, 1100)
        consecutiveCrashes  == CountEq(last5, 1010)
        lowCount10 == CountLE(last10, 1300)
        lowCount15 == CountLE(last15, 1300)
    IN  IF consecutiveCrashes >= 3 THEN 2500 + Scale(d.relief, 3500)
        ELSE IF consecutiveLows >= 4 THEN 1800 + Scale(d.relief, 1700)
        ELSE IF consecutiveVeryLows >= 4 THEN 2000 + Scale(d.relief, 2000)
        ELSE IF lowCount10 >= 7 THEN 1500 + Scale(d.relief, 1500)
        ELSE IF lowCount15 >= 10 /\ multiplier < 1500 THEN 1400 + Scale(d.relief, 600)
        ELSE multiplier

\* Relief tiers whose last tier starts its range at 1.2.
ReliefValueBelowFloor(multiplier, hist, d) ==
    LET last5  == Last(hist, 5)
        last10 == Last(hist, 10)
        last15 == Last(hist, 15)
        consecutiveLows     == CountLE(last5, 1300)
        consecutiveVeryLows == CountLE(last5, 1100)
        consecutiveCrashes  == CountEq(last5, 1010)
        lowCount10 == CountLE(last10, 1300)
        lowCount15 == CountLE(last15, 1300)
    IN  IF consecutiveCrashes >= 3 THEN 2500 + Scale(d.relief, 3500)
        ELSE IF consecutiveVeryLows >= 4 THEN 2000 + Scale(d.relief, 2000)
        ELSE IF consecutiveLows >= 4 THEN 1800 + Scale(d.relief, 1700)
        ELSE IF lowCount10 >= 7 THEN 1500 + Scale(d.relief, 1500)
        ELSE IF lowCount15 >= 10 /\ multiplier < 1500 THEN 1200 + Scale(d.relief, 600)
        ELSE multiplier

\* Relief tiers whose run tiers ask for 5 lows among the last 5, not 4.
ReliefValueFiveLows(multiplier, hist, d) ==
    LET last5  == Last(hist, 5)
        last10 == Last(hist, 10)
        last15 == Last(hist, 15)
        consecutiveLows     == CountLE(last5, 1300)
        consecutiveVeryLows == CountLE(last5, 1100)
        consecutiveCrashes  == CountEq(last5, 1010)
        lowCount10 == CountLE(last10, 1300)
        lowCount15 == CountLE(last15, 1300)
    IN  IF consecutiveCrashes >= 3 THEN 2500 + Scale(d.relief, 3500)
        ELSE IF consecutiveVeryLows >= 5 THEN 2000 + Scale(d.relief, 2000)
        ELSE IF consecutiveLows >= 5 THEN 1800 + Scale(d.relief, 1700)
        ELSE IF lowCount10 >= 7 THEN 1500 + Scale(d.relief, 1500)
        ELSE IF lowCount15 >= 10 /\ multiplier < 1500 THEN 1400 + Scale(d.relief, 600)
        ELSE multiplier

\* Relief tiers whose first tier asks for 4 floor values, not 3.
ReliefValueFourCrashes(multiplier, hist, d) ==
    LET last5  == Last(hist, 5)
        last10 == Last(hist, 10)
        last15 == Last(hist, 15)
        consecutiveLows     == CountLE(last5, 1300)
        consecutiveVeryLows == CountLE(last5, 1100)
        consecutiveCrashes  == CountEq(last5, 1010)
        lowCount10 == CountLE(last10, 1300)
        lowCount15 == CountLE(last15, 1300)
    IN  IF consecutiveCrashes >= 4 THEN 2500 + Scale(d.relief, 3500)
        ELSE IF consecutiveVeryLows >= 4 THEN 2000 + Scale(d.relief, 2000)
        ELSE IF consecutiveLows >= 4 THEN 1800 + Scale(d.relief, 1700)
        ELSE IF lowCount10 >= 7 THEN 1500 + Scale(d.relief, 1500)
        ELSE IF lowCount15 >= 10 /\ multiplier < 1500 THEN 1400 + Scale(d.relief, 600)
        ELSE multiplier

\* The value the relief tiers leave in `multiplier` (lines 845-866).
ReliefValue(multiplier, hist, d) ==
    LET last5  == Last(hist, 5)
        last10 == Last(hist, 10)
        last15 == Last(hist, 15)
        consecutiveLows     == CountLE(last5, 1300)
        consecutiveVeryLows == CountLE(last5, 1100)
        consecutiveCrashes  == CountEq(last5, 1010)
        lowCount10 == CountLE(last10, 1300)
        lowCount15 == CountLE(last15, 1300)
    IN  IF consecutiveCrashes >= 3 THEN 2500 + Scale(d.relief, 3500)
        ELSE IF consecutiveVeryLows >= 4 THEN 2000 + Scale(d.relief, 2000)
        ELSE IF consecutiveLows >= 4 THEN 1800 + Scale(d.relief, 1700)
        ELSE IF lowCount10 >= 7 THEN 1500 + Scale(d.relief, 1500)
        ELSE IF lowCount15 >= 10 /\ multiplier < 1500 THEN 1400 + Scale(d.relief, 600)
        ELSE multiplier

\* Returns the new history window and the returned value.
applyBiasCorrection(multiplier, hist, d) ==
    LET m == IF Len(hist) < 10 THEN multiplier ELSE ReliefValue(multiplier, hist, d)
    IN  [hist |-> PushHistory(hist, m), value |-> Round2(m)]

\* Returns the new history window and the multiplier of the round.
generateCrashMultiplier(round, hist, d) ==
    LET entropy == Scale(d.entropy, 100)
        huge    == maybeHugeMultiplier(d.hugeR, d.hugeV)
        base    == IF huge = 0 THEN generateEnhancedDistribution(d.distR, d.distV) ELSE huge
        shaped  == applyEnhancedLossPatterns(base + entropy, round, hist, d)
        biased  == applyBiasCorrection(shaped, hist, d)
    IN  [hist |-> biased.hist, value |-> Round2(biased.value + Centered(d.micro, 10))]

\* ------------------------------------------------------------------------
\* State
\* ------------------------------------------------------------------------

VARIABLES
    currentRound,         \* let currentRound
    nextRoundToGenerate,  \* let nextRoundToGenerate
    multiplierBuffer,     \* let multiplierBuffer: sequence of rounds
    recentMultipliers,    \* let recentMultipliers: the history window
    isGenerating,         \* let isGenerating
    lastQueueCheck,       \* let lastQueueCheck
    initPc,               \* initializeRoundNumbers: "query", "done" or "failed"
    pc,                   \* position of each handler invocation
    kind,                 \* handler of each invocation: "check" or "force"
    loc,                  \* local constants of each invocation, and the local
                          \* `multiplier` of generateCrashMultiplier
    db,                   \* round_numbers of the rows of the multipliers table
    db0,                  \* the table when the process started
    socketQueue,          \* queue length of the socket server
    insertLog,            \* the insert calls made, in order
    notifyLog             \* the POST /queue calls made, in order, each with
                          \* the number of insert calls made before its reply

vars == << currentRound, nextRoundToGenerate, multiplierBuffer, recentMultipliers,
           isGenerating, lastQueueCheck, initPc, pc, kind, loc, db, db0,
           socketQueue, insertLog, notifyLog >>

\* The generation state the sequencer and the pipeline own.
genState == << nextRoundToGenerate, currentRound, multiplierBuffer, recentMultipliers >>

\* What the environment holds.
envState == << db, db0, socketQueue, insertLog, notifyLog >>

NoLoc == [queueSize |-> 0, batchStartRound |-> 0, hasExistingRounds |-> FALSE,
          sent |-> << >>, endRound |-> 0, multiplier |-> 0]

RoundNumbers(rows) == {rows[i].round_number : i \in 1..Len(rows)}

\* Positions at which an invocation is suspended inside generateFullBatch.
InBatch == {"range", "insert", "notify"}

\* The state after the module has loaded, with the table one of `stores`.
InitWith(stores) ==
    /\ currentRound = DefaultCurrentRound
    /\ nextRoundToGenerate = DefaultCurrentRound + 1
    /\ multiplierBuffer = << >>
    /\ recentMultipliers = << >>
    /\ isGenerating = FALSE
    /\ lastQueueCheck = 0
    /\ initPc = "query"
    /\ pc = [p \in Procs |-> "idle"]
    /\ kind = [p \in Procs |-> "check"]
    /\ loc = [p \in Procs |-> NoLoc]
    /\ db \in stores
    /\ db0 = db
    /\ socketQueue = 0
    /\ insertLog = << >>
    /\ notifyLog = << >>

Init == InitWith(InitialStores)

\* ------------------------------------------------------------------------
\* Startup reconciliation
\* ------------------------------------------------------------------------

\* What getHighestRoundNumber returns: the maximum round_number, or 0 when
\* the table is empty or the query failed.
getHighestRoundNumber(store, queryOk) ==
    IF queryOk /\ store # {}
    THEN CHOOSE m \in store : \A r \in store : r <= m
    ELSE 0

\* initializeRoundNumbers resumes when the query of getHighestRoundNumber
\* returns.
initializeRoundNumbers ==
    /\ initPc = "query"
    /\ \E queryOk \in BOOLEAN :
         LET highestRound == getHighestRoundNumber(db, queryOk)
         IN  /\ IF highestRound > 0
                THEN /\ currentRound' = highestRound
                     /\ nextRoundToGenerate' = highestRound + 1
                ELSE UNCHANGED << currentRound, nextRoundToGenerate >>
             /\ initPc' = IF queryOk THEN "done" ELSE "failed"
    /\ UNCHANGED << multiplierBuffer, recentMultipliers, isGenerating, lastQueueCheck,
                    pc, kind, loc, envState >>

\* ------------------------------------------------------------------------
\* Returning from generateFullBatch to its caller
\* ------------------------------------------------------------------------

\* The values Date.now() may return: the clock is positive and does not run
\* backwards, and lastQueueCheck holds its latest reading.
DateNow == Max(1, lastQueueCheck)..MaxClock

\* generateFullBatch has returned: checkSocketQueueAndGenerate runs lines
\* 1003-1008, the force-generation route line 1358 and its response. The
\* invocation ends at position `at`.
CallerResume(p, at) ==
    /\ isGenerating' = FALSE
    /\ IF kind[p] = "force"
       THEN UNCHANGED lastQueueCheck
       ELSE \E t \in DateNow : lastQueueCheck' = t
    /\ pc' = [pc EXCEPT ![p] = at]

\* A catch block that only logs the error.
CallerCatchLeavingFlag(p, at) ==
    /\ UNCHANGED << isGenerating, lastQueueCheck >>
    /\ pc' = [pc EXCEPT ![p] = at]

\* An exception reached the caller's catch block (lines 1010-1013 and
\* 1365-1372).
CallerCatch(p, at) ==
    /\ isGenerating' = FALSE
    /\ UNCHANGED lastQueueCheck
    /\ pc' = [pc EXCEPT ![p] = at]

\* generateFullBatch from its entry to the await of checkExistingRounds.
EnterGenerateFullBatch(p) ==
    /\ loc' = [loc EXCEPT ![p].batchStartRound = nextRoundToGenerate]
    /\ pc' = [pc EXCEPT ![p] = "range"]

\* Invocations take the slots in order.
MayStart(p) ==
    /\ pc[p] = "idle"
    /\ \A q \in Procs : q < p => pc[q] # "idle"

\* ------------------------------------------------------------------------
\* checkSocketQueueAndGenerate (timer tick and POST /api/trigger-generation)
\* ------------------------------------------------------------------------

\* An entry without the isGenerating test of lines 970-973.
checkSocketQueueAndGenerateUnguarded(p) ==
    /\ MayStart(p)
    /\ kind' = [kind EXCEPT ![p] = "check"]
    /\ pc' = [pc EXCEPT ![p] = "health"]
    /\ UNCHANGED << genState, isGenerating, lastQueueCheck, initPc, loc, envState >>

\* Entry, lines 968-982: the isGenerating test, then the health query.
checkSocketQueueAndGenerate(p) ==
    /\ MayStart(p)
    /\ kind' = [kind EXCEPT ![p] = "check"]
    /\ pc' = [pc EXCEPT ![p] = IF isGenerating THEN "skipped" ELSE "health"]
    /\ UNCHANGED << genState, isGenerating, lastQueueCheck, initPc, loc, envState >>

\* The fetch of /health returns, lines 977-989.
HealthFetchReturn(p) ==
    /\ pc[p] = "health"
    /\ \E outcome \in {"ok", "notOk", "throw"} :
         CASE outcome = "ok" ->
                /\ loc' = [loc EXCEPT ![p].queueSize = socketQueue]
                /\ pc' = [pc EXCEPT ![p] = "json"]
                /\ UNCHANGED << isGenerating, lastQueueCheck >>
           [] outcome = "notOk" ->
                /\ pc' = [pc EXCEPT ![p] = "healthNotOk"]
                /\ UNCHANGED << isGenerating, lastQueueCheck, loc >>
           [] outcome = "throw" ->
                /\ CallerCatch(p, "healthThrew")
                /\ UNCHANGED loc
    /\ UNCHANGED << genState, initPc, kind, envState >>

\* The comparison as the comment of line 770 words it ("less than").
QueueIsLowStrict(queueSize) == queueSize < QUEUE_THRESHOLD

\* if (queueSize <= QUEUE_THRESHOLD), line 996
QueueIsLow(queueSize) == queueSize <= QUEUE_THRESHOLD

\* response.json() returns, lines 989-1008.
HealthJsonReturn(p) ==
    /\ pc[p] = "json"
    /\ \E parsed \in BOOLEAN :
         IF ~parsed
         THEN /\ CallerCatch(p, "healthThrew")
              /\ UNCHANGED loc
         ELSE IF QueueIsLow(loc[p].queueSize)
         THEN /\ isGenerating' = TRUE
              /\ EnterGenerateFullBatch(p)
              /\ UNCHANGED lastQueueCheck
         ELSE /\ \E t \in DateNow : lastQueueCheck' = t
              /\ pc' = [pc EXCEPT ![p] = "queueHealthy"]
              /\ UNCHANGED << isGenerating, loc >>
    /\ UNCHANGED << genState, initPc, kind, envState >>

\* ------------------------------------------------------------------------
\* POST /api/force-generation
\* ------------------------------------------------------------------------

\* A force-generation route without the isGenerating test of lines 1349-1354.
ForceGenerationUnguarded(p) ==
    /\ MayStart(p)
    /\ kind' = [kind EXCEPT ![p] = "force"]
    /\ isGenerating' = TRUE
    /\ EnterGenerateFullBatch(p)
    /\ UNCHANGED << genState, lastQueueCheck, initPc, envState >>

\* Lines 1346-1373 up to the await of generateFullBatch.
ForceGeneration(p) ==
    /\ MayStart(p)
    /\ kind' = [kind EXCEPT ![p] = "force"]
    /\ IF isGenerating
       THEN /\ pc' = [pc EXCEPT ![p] = "rejected"]
            /\ UNCHANGED << isGenerating, loc >>
       ELSE /\ isGenerating' = TRUE
            /\ EnterGenerateFullBatch(p)
    /\ UNCHANGED << genState, lastQueueCheck, initPc, envState >>

\* ------------------------------------------------------------------------
\* generateFullBatch
\* ------------------------------------------------------------------------

\* What checkExistingRounds returns: true when the query succeeded and found
\* a row in the range, false otherwise (also when the query failed).
checkExistingRounds(store, startRound, endRound, queryOk) ==
    queryOk /\ \E r \in store : startRound <= r /\ r <= endRound

\* A loop that puts each new round at the front of the buffer.
RECURSIVE GenerateRoundsPrepending(_, _, _, _, _)
GenerateRoundsPrepending(n, next, buffer, hist, ds) ==
    IF n = 0
    THEN [next |-> next, buffer |-> buffer, hist |-> hist]
    ELSE LET g == generateCrashMultiplier(next, hist, ds[Len(ds) - n + 1])
         IN  GenerateRoundsPrepending(n - 1, next + 1,
                            << [round_number |-> next, multiplier |-> g.value] >> \o buffer,
                            g.hist, ds)

\* The for loop of lines 1085-1109: n more rounds, with the draws ds.
RECURSIVE GenerateRounds(_, _, _, _, _)
GenerateRounds(n, next, buffer, hist, ds) ==
    IF n = 0
    THEN [next |-> next, buffer |-> buffer, hist |-> hist]
    ELSE LET g == generateCrashMultiplier(next, hist, ds[Len(ds) - n + 1])
         IN  GenerateRounds(n - 1, next + 1,
                            Append(buffer, [round_number |-> next, multiplier |-> g.value]),
                            g.hist, ds)

\* A conflict guard that runs after the sequencer has been advanced.
ConflictAbortAdvancing(p) ==
    /\ CallerResume(p, "conflict")
    /\ nextRoundToGenerate' = nextRoundToGenerate + BATCH_SIZE
    /\ UNCHANGED << currentRound, multiplierBuffer, recentMultipliers, insertLog >>

\* if (hasExistingRounds) { ... return; }, lines 1079-1083
ConflictAbort(p) ==
    /\ CallerResume(p, "conflict")
    /\ UNCHANGED << genState, insertLog >>

\* checkExistingRounds returns, lines 1078-1127: the conflict guard, the
\* generation loop and the insert call. The loop takes the results of its
\* Math.random() calls from `draws`.
RangeCheckOutcome(p, queryOk, draws) ==
    /\ pc[p] = "range"
    /\   LET hasExistingRounds ==
                 checkExistingRounds(db, loc[p].batchStartRound,
                                     loc[p].batchStartRound + BATCH_SIZE - 1, queryOk)
         IN  IF hasExistingRounds
             THEN /\ ConflictAbort(p)
                  /\ loc' = [loc EXCEPT ![p].hasExistingRounds = TRUE]
             ELSE \E ds \in [1..BATCH_SIZE -> draws] :
                LET g == GenerateRounds(BATCH_SIZE, nextRoundToGenerate,
                                        multiplierBuffer, recentMultipliers, ds)
                IN  /\ nextRoundToGenerate' = g.next
                    /\ multiplierBuffer' = g.buffer
                    /\ recentMultipliers' = g.hist
                    /\ insertLog' = Append(insertLog, [p |-> p, rows |-> g.buffer,
                                                       result |-> "pending"])
                    /\ loc' = [loc EXCEPT ![p].sent = g.buffer,
                                          ![p].hasExistingRounds = FALSE]
                    /\ pc' = [pc EXCEPT ![p] = "insert"]
                    /\ UNCHANGED << currentRound, isGenerating, lastQueueCheck >>
    /\ UNCHANGED << initPc, kind, db, db0, socketQueue, notifyLog >>

\* The query of checkExistingRounds answers or fails.
RangeCheckReturnWith(p, draws) ==
    \E queryOk \in BOOLEAN : RangeCheckOutcome(p, queryOk, draws)

RangeCheckReturn(p) == RangeCheckReturnWith(p, Draws)

\* Index in insertLog of the pending insert call of p.
PendingInsert(p) ==
    CHOOSE i \in 1..Len(insertLog) : insertLog[i].p = p /\ insertLog[i].result = "pending"

\* An insert-error branch that discards the batch it could not persist.
InsertFailedDiscarding(p) ==
    /\ CallerResume(p, "insertError")
    /\ multiplierBuffer' = << >>
    /\ UNCHANGED << nextRoundToGenerate, currentRound, recentMultipliers, loc, db,
                    notifyLog >>

\* if (insertError) { ... return; }, lines 1129-1135: the buffer is kept.
InsertFailed(p) ==
    /\ CallerResume(p, "insertError")
    /\ UNCHANGED << genState, loc, db, notifyLog >>

\* The insert returns, lines 1125-1152.
InsertReturn(p) ==
    /\ pc[p] = "insert"
    /\ \E outcome \in {"ok", "error", "throw"} :
         /\ insertLog' = [insertLog EXCEPT ![PendingInsert(p)].result = outcome]
         /\ CASE outcome = "error" ->
                   InsertFailed(p)
              [] outcome = "throw" ->
                   /\ CallerCatch(p, "insertThrew")
                   /\ UNCHANGED << genState, loc, db, notifyLog >>
              [] outcome = "ok" ->
                   /\ db' = db \cup RoundNumbers(loc[p].sent)
                   /\ IF Len(multiplierBuffer) = 0
                      THEN /\ CallerResume(p, "bufferEmpty")
                           /\ UNCHANGED << loc, notifyLog >>
                      ELSE /\ loc' = [loc EXCEPT
                                        ![p].endRound =
                                            multiplierBuffer[Len(multiplierBuffer)].round_number,
                                        ![p].sent = multiplierBuffer]
                           /\ notifyLog' = Append(notifyLog,
                                  [p |-> p, multipliers |-> multiplierBuffer,
                                   startRound |-> multiplierBuffer[1].round_number,
                                   result |-> "pending", repliedAfter |-> 0])
                           /\ pc' = [pc EXCEPT ![p] = "notify"]
                           /\ UNCHANGED << isGenerating, lastQueueCheck >>
                   /\ UNCHANGED genState
    /\ UNCHANGED << initPc, kind, db0, socketQueue >>

\* Index in notifyLog of the pending POST /queue of p.
PendingNotify(p) ==
    CHOOSE i \in 1..Len(notifyLog) : notifyLog[i].p = p /\ notifyLog[i].result = "pending"

\* A batch end that keeps the buffer for a later cycle when the POST /queue of
\* the cycle is still unanswered or has failed.
FinishBatchKeepingUnsent(p) ==
    /\ currentRound' = loc[p].endRound
    /\ multiplierBuffer' = IF notifyLog'[PendingNotify(p)].result = "ok"
                           THEN << >> ELSE multiplierBuffer

\* currentRound = endRound; multiplierBuffer = [], lines 1154-1158, whatever
\* sendMultipliersToSocketServer logged.
FinishBatch(p) ==
    /\ currentRound' = loc[p].endRound
    /\ multiplierBuffer' = << >>

\* sendMultipliersToSocketServer returns, lines 946-965 and 1152-1160. A
\* response that is not ok and a thrown error are both only logged.
NotifyReturn(p) ==
    /\ pc[p] = "notify"
    /\ \E outcome \in {"ok", "failed"} :
         /\ notifyLog' = [notifyLog EXCEPT
                            ![PendingNotify(p)].result = outcome,
                            ![PendingNotify(p)].repliedAfter = Len(insertLog)]
         /\ socketQueue' = IF outcome = "ok" THEN socketQueue + Len(loc[p].sent)
                           ELSE socketQueue
    /\ FinishBatch(p)
    /\ CallerResume(p, "complete")
    /\ UNCHANGED << nextRoundToGenerate, recentMultipliers, initPc, kind, loc,
                    db, db0, insertLog >>

\* ------------------------------------------------------------------------
\* Environment
\* ------------------------------------------------------------------------

\* The socket server takes one multiplier off its queue.
Consume ==
    /\ socketQueue > 0
    /\ socketQueue' = socketQueue - 1
    /\ UNCHANGED << genState, isGenerating, lastQueueCheck, initPc, pc, kind, loc,
                    db, db0, insertLog, notifyLog >>

Next ==
    \/ initializeRoundNumbers
    \/ \E p \in Procs : checkSocketQueueAndGenerate(p)
    \/ \E p \in Procs : HealthFetchReturn(p)
    \/ \E p \in Procs : HealthJsonReturn(p)
    \/ \E p \in Procs : ForceGeneration(p)
    \/ \E p \in Procs : RangeCheckReturn(p)
    \/ \E p \in Procs : InsertReturn(p)
    \/ \E p \in Procs : NotifyReturn(p)
    \/ Consume

Spec == Init /\ [][Next]_vars

\* ------------------------------------------------------------------------
\* The controller under fair collaborators. Which multipliers the loop
\* produces does not change the path a cycle takes, so the loop takes one
\* row of DrawTable.
\* ------------------------------------------------------------------------

OneDraw == {DrawTable[1]}

FairNext ==
    \/ initializeRoundNumbers
    \/ \E p \in Procs : checkSocketQueueAndGenerate(p)
    \/ \E p \in Procs : HealthFetchReturn(p)
    \/ \E p \in Procs : HealthJsonReturn(p)
    \/ \E p \in Procs : ForceGeneration(p)
    \/ \E p \in Procs : RangeCheckReturnWith(p, OneDraw)
    \/ \E p \in Procs : InsertReturn(p)
    \/ \E p \in Procs : NotifyReturn(p)
    \/ Consume

\* Every collaborator call (health query and its body, range check, insert,
\* notify) eventually returns, with success or failure.
CallsReturn ==
    \A p \in Procs :
        /\ WF_vars(HealthFetchReturn(p))
        /\ WF_vars(HealthJsonReturn(p))
        /\ WF_vars(RangeCheckReturnWith(p, OneDraw))
        /\ WF_vars(InsertReturn(p))
        /\ WF_vars(NotifyReturn(p))

FairSpec == Init /\ [][FairNext]_vars /\ CallsReturn

\* ------------------------------------------------------------------------
\* The controller driven by the timer alone: setInterval fires for ever, so
\* an invocation that has ended gives its slot to a later tick.
\* ------------------------------------------------------------------------

\* Positions at which an invocation has ended.
Ended == {"skipped", "rejected", "healthNotOk", "healthThrew", "queueHealthy",
          "conflict", "insertError", "insertThrew", "bufferEmpty", "complete"}

\* Invocations that have not yet reached the generation loop.
Approaching == {p \in Procs : pc[p] \in {"health", "json", "range"}}

\* The model follows the timer until MaxBatches batches have been generated.
TicksLeft == Len(insertLog) + Cardinality(Approaching) < MaxBatches

\* The slot of an ended invocation is free for the next tick of setInterval.
NextInterval(p) ==
    /\ pc[p] \in Ended
    /\ pc' = [pc EXCEPT ![p] = "idle"]
    /\ loc' = [loc EXCEPT ![p] = NoLoc]
    /\ kind' = [kind EXCEPT ![p] = "check"]
    /\ UNCHANGED << genState, isGenerating, lastQueueCheck, initPc, envState >>

\* A tick of setInterval(checkSocketQueueAndGenerate, QUEUE_CHECK_INTERVAL).
TimerTick(p) == TicksLeft /\ checkSocketQueueAndGenerate(p)

\* A table whose highest round_number is below the default currentRound.
LaggingStores == { {DefaultCurrentRound - 1} }

TimerNext ==
    \/ initializeRoundNumbers
    \/ \E p \in Procs : TimerTick(p)
    \/ \E p \in Procs : NextInterval(p)
    \/ \E p \in Procs : HealthFetchReturn(p)
    \/ \E p \in Procs : HealthJsonReturn(p)
    \/ \E p \in Procs : RangeCheckReturnWith(p, OneDraw)
    \/ \E p \in Procs : InsertReturn(p)
    \/ \E p \in Procs : NotifyReturn(p)
    \/ Consume

\* The timer keeps firing, the startup query returns and every collaborator
\* call returns.
TimerFairness ==
    /\ WF_vars(initializeRoundNumbers)
    /\ CallsReturn
    /\ \A p \in Procs : WF_vars(TimerTick(p)) /\ WF_vars(NextInterval(p))

TimerSpec == InitWith(LaggingStores) /\ [][TimerNext]_vars /\ TimerFairness

\* ------------------------------------------------------------------------
\* The pipeline on its own: one run of generateCrashMultiplier per step, from
\* every history window of a family and with the extreme results of every
\* Math.random() call.
\* ------------------------------------------------------------------------

\* The smallest and the largest result of a Math.random() call.
Extremes == {0, 9999}

\* Results of the calls that choose the sampled value, one per band edge the
\* claims need: the top of the highest huge band, the bottom of the lowest
\* huge band, the top and the bottom of the distribution, and values on both
\* sides of 1.5 and of 10.
BaseDraws ==
    { [hugeR |-> 0, hugeV |-> 9999, distR |-> 0, distV |-> 0],
      [hugeR |-> 19, hugeV |-> 0, distR |-> 0, distV |-> 0],
      [hugeR |-> 5000, hugeV |-> 0, distR |-> 0, distV |-> 9999],
      [hugeR |-> 5000, hugeV |-> 0, distR |-> 100, distV |-> 9999],
      [hugeR |-> 5000, hugeV |-> 0, distR |-> 2000, distV |-> 0],
      [hugeR |-> 5000, hugeV |-> 0, distR |-> 5000, distV |-> 9999],
      [hugeR |-> 5000, hugeV |-> 0, distR |-> 9999, distV |-> 9999],
      [hugeR |-> 5000, hugeV |-> 0, distR |-> 9999, distV |-> 0] }

PipelineDraws ==
    { [entropy |-> e, hugeR |-> b.hugeR, hugeV |-> b.hugeV, distR |-> b.distR,
       distV |-> b.distV, pattern |-> pt, damp |-> dm, relief |-> rl, micro |-> mi] :
          e \in Extremes, b \in BaseDraws, pt \in Extremes, dm \in Extremes,
          rl \in Extremes, mi \in Extremes }

\* A window of `len` entries: distinct mid-range values first, then `k`
\* entries of value `recent`.
Window(len, k, recent) ==
    [i \in 1..len |-> IF i > len - k THEN recent ELSE 2000 + i]

\* A window of lows (1.2) and distinct mid-range values, oldest first.
Mixed(lows) ==
    [i \in 1..Len(lows) |-> IF lows[i] = 1 THEN 1200 ELSE 2000 + i]

\* Lengths around the thresholds of the pipeline (8, 10, 12, 15) and around
\* the capacity of the window.
WindowLengths == {0, 3, 7, 9, 10, 15, N_HIST - 1, N_HIST}

HistoryWindows ==
    { Window(len, k, recent) :
          len \in WindowLengths, k \in {0, 3, 5, 10}, recent \in {1010, 1100, 1300, 20000} }
    \cup { Mixed(<< 1, 1, 1, 1, 1, 1, 0, 1, 0, 1 >>),
           Mixed(<< 1, 1, 1, 1, 1, 1, 0, 1, 0, 1, 0, 1, 0, 1, 0 >>) }

\* Round numbers at which sin(round * 0.1) is near 0.9 and near 1.
PipelineRounds == {DefaultCurrentRound + 1, DefaultCurrentRound + 21}

InitPipeline ==
    /\ currentRound = DefaultCurrentRound
    /\ nextRoundToGenerate \in PipelineRounds
    /\ multiplierBuffer = << >>
    /\ recentMultipliers \in HistoryWindows
    /\ isGenerating = FALSE
    /\ lastQueueCheck = 0
    /\ initPc = "done"
    /\ pc = [p \in Procs |-> "idle"]
    /\ kind = [p \in Procs |-> "check"]
    /\ loc = [p \in Procs |-> NoLoc]
    /\ db = {}
    /\ db0 = db
    /\ socketQueue = 0
    /\ insertLog = << >>
    /\ notifyLog = << >>

\* One pass of the generation loop, lines 1086-1108.
PipelineRun ==
    /\ Len(multiplierBuffer) < MaxRuns
    /\ \E d \in PipelineDraws :
         LET g == GenerateRounds(1, nextRoundToGenerate, multiplierBuffer,
                                 recentMultipliers, << d >>)
         IN  /\ nextRoundToGenerate' = g.next
             /\ multiplierBuffer' = g.buffer
             /\ recentMultipliers' = g.hist
    /\ UNCHANGED << currentRound, isGenerating, lastQueueCheck, initPc, pc, kind, loc,
                    envState >>

PipelineSpec == InitPipeline /\ [][PipelineRun]_vars

\* ------------------------------------------------------------------------
\* The Streak Corrector on its own: one call of applyBiasCorrection (line
\* 893) from every history window of the family, with the local `multiplier`
\* of generateCrashMultiplier holding the pending value before the call and
\* the returned value after it.
\* ------------------------------------------------------------------------

\* Pending values on both sides of every threshold and relief range.
PendingValues == {1010, 1100, 1300, 1399, 1400, 1499, 1500, 1800, 2499, 2500,
                  3500, 5000, 6000, 7000, 50000}

\* The results of the Math.random() call of the relief tiers.
ReliefDraws == {[DrawTable[1] EXCEPT !.relief = r] : r \in {0, 5000, 9999}}

InitCorrector ==
    /\ currentRound = DefaultCurrentRound
    /\ nextRoundToGenerate = DefaultCurrentRound + 1
    /\ multiplierBuffer = << >>
    /\ recentMultipliers \in HistoryWindows
    /\ isGenerating = TRUE
    /\ lastQueueCheck = 0
    /\ initPc = "done"
    /\ pc = [p \in Procs |-> IF p = 1 THEN "biasCorrection" ELSE "idle"]
    /\ kind = [p \in Procs |-> "check"]
    /\ \E pending \in PendingValues :
          loc = [p \in Procs |-> IF p = 1 THEN [NoLoc EXCEPT !.multiplier = pending]
                                           ELSE NoLoc]
    /\ db = {}
    /\ db0 = db
    /\ socketQueue = 0
    /\ insertLog = << >>
    /\ notifyLog = << >>

\* multiplier = applyBiasCorrection(multiplier), line 893
CorrectorRun(p) ==
    /\ pc[p] = "biasCorrection"
    /\ \E d \in ReliefDraws :
         LET biased == applyBiasCorrection(loc[p].multiplier, recentMultipliers, d)
         IN  /\ recentMultipliers' = biased.hist
             /\ loc' = [loc EXCEPT ![p].multiplier = biased.value]
    /\ pc' = [pc EXCEPT ![p] = "microVariation"]
    /\ UNCHANGED << currentRound, nextRoundToGenerate, multiplierBuffer, isGenerating,
                    lastQueueCheck, initPc, kind, envState >>

CorrectorSpec == InitCorrector /\ [][\E p \in Procs : CorrectorRun(p)]_vars

\* ------------------------------------------------------------------------
\* The pipeline on windows built around the streak thresholds: the last 8
\* entries hold up to MaxFloors floor values at every choice of positions,
\* and a run of lows at the end.
\* ------------------------------------------------------------------------

\* Most floor values placed among the last 8 entries.
MaxFloors == 3

\* The last 8 entries: 1.01 at the positions of `floors`, 1.3 at those of
\* `lows`, distinct mid-range values elsewhere.
LastEight(floors, lows) ==
    [i \in 1..8 |-> IF i \in floors THEN 1010
                    ELSE IF i \in lows THEN 1300 ELSE 2000 + i]

\* A window of n floor values followed by `tail`.
FloorsThen(n, tail) == [i \in 1..n |-> 1010] \o tail

\* Runs of lows at the end of the window: none, the last 4, the last 5, all 8.
LowRuns == { {}, 5..8, 4..8, 1..8 }

StreakWindows ==
    { FloorsThen(n, LastEight(floors, lows)) :
          n \in {0, 2, 7},
          floors \in {S \in SUBSET (1..8) : Cardinality(S) <= MaxFloors},
          lows \in LowRuns }

InitStreak ==
    /\ currentRound = DefaultCurrentRound
    /\ nextRoundToGenerate = DefaultCurrentRound + 1
    /\ multiplierBuffer = << >>
    /\ recentMultipliers \in StreakWindows
    /\ isGenerating = FALSE
    /\ lastQueueCheck = 0
    /\ initPc = "done"
    /\ pc = [p \in Procs |-> "idle"]
    /\ kind = [p \in Procs |-> "check"]
    /\ loc = [p \in Procs |-> NoLoc]
    /\ db = {}
    /\ db0 = db
    /\ socketQueue = 0
    /\ insertLog = << >>
    /\ notifyLog = << >>

StreakSpec == InitStreak /\ [][PipelineRun]_vars

\* ------------------------------------------------------------------------
\* The interval-based generator (generateAndStoreBatchMultipliers, lines
\* 185-242, driven by the setInterval of line 305): one round per tick, an
\* insert when the buffer is full. It has no isGenerating flag, no startup
\* query and no range check; an invocation that has ended frees its slot.
\* ------------------------------------------------------------------------

\* Ticks followed.
MaxTicks == 5

\* generateCrashMultiplier of lines 120-143: the pipeline without the
\* micro-variation.
generateCrashMultiplierOfInterval(round, hist, d) ==
    LET entropy == Scale(d.entropy, 100)
        huge    == maybeHugeMultiplier(d.hugeR, d.hugeV)
        base    == IF huge = 0 THEN generateEnhancedDistribution(d.distR, d.distV) ELSE huge
        shaped  == applyEnhancedLossPatterns(base + entropy, round, hist, d)
        biased  == applyBiasCorrection(shaped, hist, d)
    IN  [hist |-> biased.hist, value |-> Round2(biased.value)]

InitInterval ==
    /\ currentRound = DefaultCurrentRound
    /\ nextRoundToGenerate = DefaultCurrentRound + 1
    /\ multiplierBuffer = << >>
    /\ recentMultipliers = << >>
    /\ isGenerating = FALSE
    /\ lastQueueCheck = 0
    /\ initPc = "done"
    /\ pc = [p \in Procs |-> "idle"]
    /\ kind = [p \in Procs |-> "check"]
    /\ loc = [p \in Procs |-> NoLoc]
    /\ db \in InitialStores
    /\ db0 = db
    /\ socketQueue = 0
    /\ insertLog = << >>
    /\ notifyLog = << >>

\* A tick of the timer, lines 185-215: one round is generated and buffered,
\* and the buffer is inserted when it holds BATCH_SIZE rounds or more.
IntervalTick(p) ==
    /\ pc[p] = "idle"
    /\ \A q \in Procs : q < p => pc[q] # "idle"
    /\ nextRoundToGenerate < DefaultCurrentRound + 1 + MaxTicks
    /\ \E d \in OneDraw :
         LET g == generateCrashMultiplierOfInterval(nextRoundToGenerate,
                                                    recentMultipliers, d)
             buffer == Append(multiplierBuffer,
                              [round_number |-> nextRoundToGenerate,
                               multiplier |-> g.value])
         IN  /\ multiplierBuffer' = buffer
             /\ recentMultipliers' = g.hist
             /\ nextRoundToGenerate' = nextRoundToGenerate + 1
             /\ IF Len(buffer) >= BATCH_SIZE
                THEN /\ insertLog' = Append(insertLog, [p |-> p, rows |-> buffer,
                                                        result |-> "pending"])
                     /\ loc' = [loc EXCEPT ![p].sent = buffer]
                     /\ pc' = [pc EXCEPT ![p] = "insert"]
                ELSE UNCHANGED << insertLog, loc, pc >>
    /\ UNCHANGED << currentRound, isGenerating, lastQueueCheck, initPc, kind, db, db0,
                    socketQueue, notifyLog >>

\* The insert returns, lines 213-234. An error, and a rejected call, end the
\* invocation with the buffer as it is.
IntervalInsertReturn(p) ==
    /\ pc[p] = "insert"
    /\ \E outcome \in {"ok", "error", "throw"} :
         /\ insertLog' = [insertLog EXCEPT ![PendingInsert(p)].result = outcome]
         /\ IF outcome # "ok"
            THEN /\ pc' = [pc EXCEPT ![p] = "idle"]
                 /\ UNCHANGED << loc, db, notifyLog >>
            ELSE /\ db' = db \cup RoundNumbers(loc[p].sent)
                 /\ IF Len(multiplierBuffer) = 0
                    THEN /\ pc' = [pc EXCEPT ![p] = "idle"]
                         /\ UNCHANGED << loc, notifyLog >>
                    ELSE /\ loc' = [loc EXCEPT
                                      ![p].endRound =
                                          multiplierBuffer[Len(multiplierBuffer)].round_number,
                                      ![p].sent = multiplierBuffer]
                         /\ notifyLog' = Append(notifyLog,
                                [p |-> p, multipliers |-> multiplierBuffer,
                                 startRound |-> multiplierBuffer[1].round_number,
                                 result |-> "pending", repliedAfter |-> 0])
                         /\ pc' = [pc EXCEPT ![p] = "notify"]
    /\ UNCHANGED << genState, isGenerating, lastQueueCheck, initPc, kind, db0,
                    socketQueue >>

\* sendMultipliersToSocketServer returns, lines 234-242.
IntervalNotifyReturn(p) ==
    /\ pc[p] = "notify"
    /\ \E outcome \in {"ok", "failed"} :
         /\ notifyLog' = [notifyLog EXCEPT
                            ![PendingNotify(p)].result = outcome,
                            ![PendingNotify(p)].repliedAfter = Len(insertLog)]
         /\ socketQueue' = IF outcome = "ok" THEN socketQueue + Len(loc[p].sent)
                           ELSE socketQueue
    /\ FinishBatch(p)
    /\ pc' = [pc EXCEPT ![p] = "idle"]
    /\ UNCHANGED << nextRoundToGenerate, recentMultipliers, isGenerating,
                    lastQueueCheck, initPc, kind, loc, db, db0, insertLog >>

IntervalNext ==
    \/ \E p \in Procs : IntervalTick(p)
    \/ \E p \in Procs : IntervalInsertReturn(p)
    \/ \E p \in Procs : IntervalNotifyReturn(p)

IntervalSpec == InitInterval /\ [][IntervalNext]_vars

\* ------------------------------------------------------------------------
\* Properties
\* ------------------------------------------------------------------------

\* Invocations suspended inside generateFullBatch.
Batching == {p \in Procs : pc[p] \in InBatch}

\* The rounds the generation loop produced for insert call i: the loop
\* appends BATCH_SIZE rounds and the call is made right after it.
GeneratedBy(i) ==
    LET rows == insertLog[i].rows
    IN  SubSeq(rows, Len(rows) - BATCH_SIZE + 1, Len(rows))

\* C1: at most one execution of generateFullBatch is in progress at any
\* time, whatever the interleaving of timer ticks, manual triggers and
\* force-generation requests.
C1_SingleBatchInProgress == Cardinality(Batching) <= 1

\* C2: every insert call carries exactly BATCH_SIZE rows.
C2_InsertCarriesBatchSize ==
    \A i \in 1..Len(insertLog) : Len(insertLog[i].rows) = BATCH_SIZE

\* C3: no round_number is handed to the persistence collaborator twice,
\* neither within one insert call nor by two insert calls.
C3_NoRoundInsertedTwice ==
    /\ \A i \in 1..Len(insertLog) :
         Cardinality(RoundNumbers(insertLog[i].rows)) = Len(insertLog[i].rows)
    /\ \A i, j \in 1..Len(insertLog) :
         i < j => RoundNumbers(insertLog[i].rows) \cap RoundNumbers(insertLog[j].rows) = {}

\* C4: an insert call made after an insert call that failed carries only
\* the rounds generated in its own cycle, none of the failed batch.
C4_NoMergeAfterInsertFailure ==
    \A i, j \in 1..Len(insertLog) :
        (i < j /\ insertLog[i].result \in {"error", "throw"})
            => insertLog[j].rows = GeneratedBy(j)

\* C5: the round numbers assigned to generated rounds go up by exactly one
\* from each round to the next, over the whole life of the process.
C5_RoundNumbersStepByOne ==
    /\ \A i \in 1..Len(insertLog) : \A k \in 1..(BATCH_SIZE - 1) :
         GeneratedBy(i)[k + 1].round_number = GeneratedBy(i)[k].round_number + 1
    /\ \A i \in 2..Len(insertLog) :
         GeneratedBy(i)[1].round_number = GeneratedBy(i - 1)[BATCH_SIZE].round_number + 1

\* C6: the first round generated after startup is numbered one more than
\* the highest persisted round_number when the store holds a round, and one
\* more than the default 1000 only when the store is empty; also when the
\* startup query fails.
C6_FirstRoundFollowsStore ==
    Len(insertLog) >= 1 =>
        GeneratedBy(1)[1].round_number =
            (IF db0 = {} THEN DefaultCurrentRound
             ELSE CHOOSE m \in db0 : \A r \in db0 : r <= m) + 1

\* C7: when checkExistingRounds reports an existing row in the range,
\* generateFullBatch aborts and leaves nextRoundToGenerate, currentRound,
\* the buffer and the history window as they were, with no insert call and
\* no notification.
C7_ConflictAbortsUntouched ==
    [][\A p \in Procs :
          (pc[p] = "range" /\ pc'[p] # "range" /\ loc'[p].hasExistingRounds)
              => /\ pc'[p] = "conflict"
                 /\ UNCHANGED << nextRoundToGenerate, currentRound, multiplierBuffer,
                                 recentMultipliers, insertLog, notifyLog, db >>]_vars

\* A conflict abort has happened while the store held a row of the range.
C7_Witness ==
    \E p \in Procs :
        /\ pc[p] = "conflict"
        /\ \E r \in db : loc[p].batchStartRound <= r
                         /\ r <= loc[p].batchStartRound + BATCH_SIZE - 1

\* C8: a call of checkSocketQueueAndGenerate that finds isGenerating true
\* sends no health query and changes nothing: the sequencer, the buffer,
\* the history window, isGenerating, lastQueueCheck and the collaborators'
\* state stay as they were.
C8_SkipIsNoOp ==
    [][\A p \in Procs :
          (pc[p] = "idle" /\ pc'[p] # "idle" /\ kind'[p] = "check" /\ isGenerating)
              => /\ pc'[p] = "skipped"
                 /\ UNCHANGED << nextRoundToGenerate, currentRound, multiplierBuffer,
                                 recentMultipliers, isGenerating, lastQueueCheck,
                                 insertLog, notifyLog, db, socketQueue >>]_vars

\* A call was skipped while another invocation was inside generateFullBatch.
C8_Witness ==
    \E p \in Procs : pc[p] = "skipped" /\ Batching # {}

C10_HealthFailureNoSideEffect ==
    [][\A p \in Procs :
          (pc[p] \in {"health", "json"} /\ pc'[p] \in {"healthNotOk", "healthThrew"})
              => UNCHANGED << nextRoundToGenerate, currentRound, multiplierBuffer,
                              recentMultipliers, lastQueueCheck, isGenerating >>]_vars


\* A step in which a POST /queue call is made.
NotifyCalled == Len(notifyLog') > Len(notifyLog)

\* C11: the notifier is called only in the step in which the insert of the
\* calling cycle returns success, and a cycle whose insert fails (error object
\* or thrown error) makes no notify call, leaves currentRound where it was
\* and keeps the buffer.
C11_NotifyOnlyAfterInsertSuccess ==
    [][/\ NotifyCalled =>
            \E p \in Procs :
                /\ pc[p] = "insert" /\ pc'[p] = "notify"
                /\ insertLog'[PendingInsert(p)].result = "ok"
                /\ notifyLog'[Len(notifyLog')].p = p
       /\ \A p \in Procs :
            (pc[p] = "insert" /\ pc'[p] \in {"insertError", "insertThrew"})
                => /\ insertLog'[PendingInsert(p)].result \in {"error", "throw"}
                   /\ UNCHANGED << notifyLog, currentRound, multiplierBuffer >>]_vars

\* A cycle's insert has failed, the buffer still holds its rounds, no notify
\* call was made for it, and another cycle has called the notifier after its
\* own insert succeeded.
C11_Witness ==
    \E p, q \in Procs :
        /\ pc[p] = "insertError" /\ pc[q] = "notify"
        /\ multiplierBuffer # << >>
        /\ \E i \in 1..Len(notifyLog) : notifyLog[i].p = q
        /\ \A i \in 1..Len(notifyLog) : notifyLog[i].p # p

\* C12: the rounds of every notify call are the rows of the insert call of
\* the same cycle, in the same order, and startRound is the round_number of
\* the first of them.
C12_NotifyCarriesInsertedRows ==
    \A n \in 1..Len(notifyLog) :
        /\ notifyLog[n].startRound = notifyLog[n].multipliers[1].round_number
        /\ \E i \in 1..Len(insertLog) :
              /\ insertLog[i].p = notifyLog[n].p
              /\ insertLog[i].rows = notifyLog[n].multipliers

\* C13: when the notify call of a cycle fails after its insert succeeded, the
\* cycle ends in that step with the buffer cleared, currentRound at the end
\* round of the batch and isGenerating false, without a second notify call;
\* and every notify call made after the failure carries only rounds that were
\* generated after it, so nothing of the failed notification is sent again.
C13_NotifyFailureCompletes ==
    [][/\ \A p \in Procs :
            (pc[p] = "notify" /\ pc'[p] # "notify"
                /\ notifyLog'[PendingNotify(p)].result = "failed")
                => /\ pc'[p] = "complete"
                   /\ multiplierBuffer' = << >>
                   /\ currentRound' =
                        notifyLog[PendingNotify(p)].multipliers[
                            Len(notifyLog[PendingNotify(p)].multipliers)].round_number
                   /\ isGenerating' = FALSE
                   /\ Len(notifyLog') = Len(notifyLog)
                   /\ socketQueue' = socketQueue
       /\ NotifyCalled =>
            LET payload == notifyLog'[Len(notifyLog')].multipliers
            IN  \A i \in 1..Len(notifyLog) :
                    notifyLog[i].result = "failed"
                        => \A n \in 1..Len(payload) :
                              \E k \in (notifyLog[i].repliedAfter + 1)..Len(insertLog) :
                                  \E j \in 1..BATCH_SIZE : GeneratedBy(k)[j] = payload[n]]_vars

\* A notify call has failed after its cycle's insert succeeded, the cycle is
\* complete, and a cycle that generated after the failure has made its own
\* notify call.
C13_Witness ==
    \E i, j \in 1..Len(notifyLog) :
        /\ i < j
        /\ notifyLog[i].result = "failed"
        /\ pc[notifyLog[i].p] = "complete"
        /\ \E k \in 1..Len(insertLog) :
              insertLog[k].p = notifyLog[i].p /\ insertLog[k].result = "ok"
        /\ \E k \in (notifyLog[i].repliedAfter + 1)..Len(insertLog) :
              insertLog[k].p = notifyLog[j].p

\* C14: a force-generation request that finds isGenerating true is rejected
\* and changes nothing; one that finds it false enters generateFullBatch in
\* the same step, without a health query.
C14_ForceGenerationGuard ==
    [][\A p \in Procs :
          (pc[p] = "idle" /\ pc'[p] # "idle" /\ kind'[p] = "force")
              => IF isGenerating
                 THEN /\ pc'[p] = "rejected"
                      /\ UNCHANGED << nextRoundToGenerate, currentRound, multiplierBuffer,
                                      recentMultipliers, isGenerating, insertLog,
                                      notifyLog, db, socketQueue >>
                 ELSE /\ pc'[p] = "range"
                      /\ isGenerating'
                      /\ loc'[p].batchStartRound = nextRoundToGenerate
                      /\ loc'[p].queueSize = NoLoc.queueSize]_vars

\* One force-generation request is inside generateFullBatch and the next one
\* has been rejected.
C14_Witness ==
    \E p, q \in Procs :
        /\ kind[p] = "force" /\ pc[p] \in InBatch
        /\ kind[q] = "force" /\ pc[q] = "rejected"

\* No force-generation request has been made.
NoForceGeneration == \A p \in Procs : pc[p] # "idle" => kind[p] = "check"

\* C15: when generation is started by timer ticks and manual triggers only,
\* the queue of the socket server never holds more than QUEUE_THRESHOLD +
\* BATCH_SIZE multipliers.
C15_QueueBounded ==
    NoForceGeneration => socketQueue <= QUEUE_THRESHOLD + BATCH_SIZE


\* The multiplier of the round the latest run produced.
LatestMultiplier == multiplierBuffer[Len(multiplierBuffer)].multiplier

\* A step in which the pipeline ran once.
PipelineRan == Len(multiplierBuffer') = Len(multiplierBuffer) + 1

\* C16: the history window holds at most 100 entries, and a run appends one
\* value at the end, removing exactly the oldest entry when the window was
\* full, so the window is the most recent (at most 100) appended values in
\* append order.
C16_HistoryWindowIsFifo ==
    [][PipelineRan =>
          LET h  == recentMultipliers
              h2 == recentMultipliers'
          IN  /\ Len(h) <= N_HIST /\ Len(h2) <= N_HIST
              /\ IF Len(h) < N_HIST
                 THEN Len(h2) = Len(h) + 1 /\ SubSeq(h2, 1, Len(h)) = h
                 ELSE Len(h2) = N_HIST /\ SubSeq(h2, 1, N_HIST - 1) = Tail(h)]_vars

\* A run has appended to the full window 2.001, ..., 2.100: the oldest entry
\* is gone, the others have moved up and the window is still full.
C16_Witness ==
    /\ Len(multiplierBuffer) = 1
    /\ Len(recentMultipliers) = N_HIST
    /\ recentMultipliers[1] = 2002
    /\ recentMultipliers[N_HIST - 1] = 2000 + N_HIST

\* C17: every multiplier stored in a generated round lies between the
\* sampler's MIN (1.01) and MAX (50), whatever the draws, the round number
\* and the history window.
C17_MultiplierWithinMinMax ==
    \A i \in 1..Len(multiplierBuffer) :
        /\ multiplierBuffer[i].multiplier >= 1010
        /\ multiplierBuffer[i].multiplier <= 50000

\* The most recent 3 entries of the window are all the floor value 1.01.
ThreeFloorValues(hist) ==
    /\ Len(hist) >= 3
    /\ \A i \in (Len(hist) - 2)..Len(hist) : hist[i] = 1010

\* C18: whatever the length of the window, when its most recent 3 entries
\* are all 1.01 the next multiplier lies in the severe relief range
\* [2.5, 6.0].
C18_SevereReliefAnyLength ==
    [][(PipelineRan /\ ThreeFloorValues(recentMultipliers))
          => (LatestMultiplier' >= 2500 /\ LatestMultiplier' <= 6000)]_vars

\* C18, amended: when the window holds at least 10 entries (the correctors
\* need that much data, line 825) and its most recent 3 entries are all 1.01,
\* the next multiplier lies in [2.5, 6.0].
C18_SevereReliefWithEnoughData ==
    [][(PipelineRan /\ Len(recentMultipliers) >= 10
           /\ ThreeFloorValues(recentMultipliers))
          => (LatestMultiplier' >= 2500 /\ LatestMultiplier' <= 6000)]_vars

\* A run on a window of more than 10 entries ending in three floor values
\* has produced 6.0, the top of the severe relief range.
C18_Witness ==
    /\ Len(multiplierBuffer) = 1
    /\ Len(recentMultipliers) > 10
    /\ \A i \in (Len(recentMultipliers) - 3)..(Len(recentMultipliers) - 1) :
          recentMultipliers[i] = 1010
    /\ recentMultipliers[Len(recentMultipliers) - 4] # 1010
    /\ LatestMultiplier = 6000


\* C19: when every collaborator call eventually returns, every cycle that
\* has set isGenerating and entered generateFullBatch eventually leaves it,
\* and the step in which it leaves (conflict abort, insert failure, thrown
\* error, empty buffer, notify failure or success) sets isGenerating to false,
\* for the timer/manual entry and the force-generation entry alike.
C19_FlagEventuallyReset ==
    /\ \A p \in Procs : (pc[p] \in InBatch) ~> (pc[p] \notin InBatch)
    /\ [][\A p \in Procs :
             /\ (pc[p] \notin InBatch /\ pc'[p] \in InBatch) => isGenerating'
             /\ (pc[p] \in InBatch /\ pc'[p] \notin InBatch) => ~isGenerating']_vars

\* A timer cycle has ended on a thrown insert error and a force-generation
\* cycle on a completed batch, and the flag is false.
C19_Witness ==
    \E p, q \in Procs :
        /\ kind[p] = "check" /\ pc[p] = "insertThrew"
        /\ kind[q] = "force" /\ pc[q] = "complete"
        /\ ~isGenerating


\* Notify calls that succeeded with every round of theirs persisted.
Delivered ==
    {i \in 1..Len(notifyLog) :
        /\ notifyLog[i].result = "ok"
        /\ RoundNumbers(notifyLog[i].multipliers) \subseteq db}

\* A step in which a collaborator call returns a failure: the health query
\* or its body, the insert, the notify call, or a range check that reports no
\* row although the table holds one in the range.
CallFails ==
    \E p \in Procs :
        \/ pc[p] \in {"health", "json"} /\ pc'[p] \in {"healthNotOk", "healthThrew"}
        \/ pc[p] = "insert" /\ pc'[p] \in {"insertError", "insertThrew"}
        \/ pc[p] = "notify" /\ pc'[p] = "complete"
              /\ notifyLog'[PendingNotify(p)].result = "failed"
        \/ pc[p] = "range" /\ pc'[p] = "insert"
              /\ checkExistingRounds(db, loc[p].batchStartRound,
                                     loc[p].batchStartRound + BATCH_SIZE - 1, TRUE)

\* C20: under fair timer ticks, from every state in which startup
\* reconciliation has succeeded, when from some point on no collaborator call
\* fails and the queue stays at or below QUEUE_THRESHOLD, one more batch is
\* eventually persisted and delivered (as long as the model still follows
\* the timer).
C20_BatchEventuallyDelivered ==
    <>[][~CallFails]_vars
        => \A n \in 0..MaxBatches :
              (initPc = "done" /\ Cardinality(Delivered) = n)
                  ~> \/ Cardinality(Delivered) > n
                     \/ socketQueue > QUEUE_THRESHOLD
                     \/ Len(insertLog) >= MaxBatches


\* C21: when the query of checkExistingRounds fails, the cycle is aborted:
\* no round is generated, no insert call is made, and nextRoundToGenerate,
\* the buffer and the history window stay as they were.
C21_RangeQueryFailureAborts ==
    [][\A p \in Procs :
          RangeCheckOutcome(p, FALSE, Draws)
              => /\ pc'[p] # "insert"
                 /\ UNCHANGED << nextRoundToGenerate, multiplierBuffer,
                                 recentMultipliers, insertLog >>]_vars


\* A step in which an invocation enters generateFullBatch.
EntersBatch(p) == pc[p] \notin InBatch /\ pc'[p] \in InBatch

\* C22: no timer or manual-trigger cycle enters generateFullBatch before
\* initializeRoundNumbers has completed, and initializeRoundNumbers does not
\* overwrite nextRoundToGenerate once a round has been generated.
C22_NoGenerationBeforeInit ==
    [][/\ \A p \in Procs : (EntersBatch(p) /\ kind'[p] = "check") => initPc # "query"
       /\ (initPc = "query" /\ initPc' # "query" /\ insertLog # << >>)
             => nextRoundToGenerate' = nextRoundToGenerate]_vars

\* C23: every round of a notify call has been persisted by an insert call
\* that returned success by the time the notify call is made.
C23_NotifiedRoundsPersisted ==
    [][NotifyCalled =>
          LET payload == notifyLog'[Len(notifyLog')].multipliers
          IN  \A n \in 1..Len(payload) :
                  \E i \in 1..Len(insertLog') :
                      /\ insertLog'[i].result = "ok"
                      /\ \E j \in 1..Len(insertLog'[i].rows) :
                            insertLog'[i].rows[j] = payload[n]]_vars

\* C24: nextRoundToGenerate = currentRound + 1 + (rounds in the buffer), and
\* the buffer is a run of consecutive round numbers that ends at
\* nextRoundToGenerate - 1.
C24_SequencerMatchesBuffer ==
    /\ nextRoundToGenerate = currentRound + 1 + Len(multiplierBuffer)
    /\ \A i \in 1..Len(multiplierBuffer) :
          multiplierBuffer[i].round_number
              = nextRoundToGenerate - Len(multiplierBuffer) + i - 1

\* The insert call of the cycle of p has returned success.
InsertSucceeded(p) ==
    \E i \in 1..Len(insertLog) : insertLog[i].p = p /\ insertLog[i].result = "ok"

\* C25: a step either leaves the buffer as it is, or appends rounds to it,
\* or empties it at the end of a cycle whose insert succeeded; conflict
\* abort, insert failure, depth-check failure, a skipped trigger and a
\* rejected request leave it as it is.
C25_BufferAppendOnly ==
    [][/\ IF multiplierBuffer # << >> /\ multiplierBuffer' = << >>
          THEN \E p \in Procs :
                  /\ pc[p] = "notify" /\ pc'[p] = "complete"
                  /\ InsertSucceeded(p)
          ELSE /\ Len(multiplierBuffer') >= Len(multiplierBuffer)
               /\ SubSeq(multiplierBuffer', 1, Len(multiplierBuffer)) = multiplierBuffer
       /\ \A p \in Procs :
            (pc'[p] # pc[p]
                /\ pc'[p] \in {"conflict", "insertError", "insertThrew", "healthNotOk",
                               "healthThrew", "queueHealthy", "skipped", "rejected"})
                => UNCHANGED multiplierBuffer]_vars

\* The buffer still holds, in place and in order, the batch of a cycle whose
\* insert failed, and a later cycle has appended a second batch behind it.
C25_Witness ==
    \E p, q \in Procs :
        /\ pc[p] = "insertError"
        /\ pc[q] = "insert"
        /\ Len(multiplierBuffer) = 2 * BATCH_SIZE
        /\ insertLog[1].p = p
        /\ SubSeq(multiplierBuffer, 1, BATCH_SIZE) = insertLog[1].rows

\* C26: isGenerating is true in every state in which an execution of
\* generateFullBatch is in progress.
C26_FlagCoversBatch == (Batching # {}) => isGenerating


\* A step in which applyBiasCorrection is called and returns.
Corrects(p) == pc[p] = "biasCorrection" /\ pc'[p] = "microVariation"

\* The value the call appended to the history window.
Appended == recentMultipliers'[Len(recentMultipliers')]

\* The conditions of the relief tiers on a window, in the order of the
\* source.
FloorRun(hist) == CountEq(Last(hist, 5), 1010) >= 3

VeryLowRun(hist) == CountLE(Last(hist, 5), 1100) >= 4

LowRun(hist) == CountLE(Last(hist, 5), 1300) >= 4

LowRatio10(hist) == CountLE(Last(hist, 10), 1300) >= 7

LowRatio15(hist) == CountLE(Last(hist, 15), 1300) >= 10

\* lo <= v < lo + span
InRange(v, lo, span) == lo <= v /\ v < lo + span

\* C27: in one call of applyBiasCorrection on a window of at least 10
\* entries the value appended comes from the range of the first tier, in the
\* order floor-run, very-low-run, low-run, low-ratio-over-10,
\* low-ratio-over-15 (for a pending value below 1.5), whose condition holds,
\* and from no other; when no tier's condition holds, and on a shorter
\* window, the pending value is passed through unchanged.
C27_FirstMatchingTierWins ==
    [][\A p \in Procs :
          Corrects(p) =>
              LET hist    == recentMultipliers
                  pending == loc[p].multiplier
              IN  IF Len(hist) < 10 THEN Appended = pending
                  ELSE IF FloorRun(hist) THEN InRange(Appended, 2500, 3500)
                  ELSE IF VeryLowRun(hist) THEN InRange(Appended, 2000, 2000)
                  ELSE IF LowRun(hist) THEN InRange(Appended, 1800, 1700)
                  ELSE IF LowRatio10(hist) THEN InRange(Appended, 1500, 1500)
                  ELSE IF LowRatio15(hist) /\ pending < 1500
                       THEN InRange(Appended, 1400, 600)
                  ELSE Appended = pending]_vars

\* A call on a window ending in five values of 1.1, which meets the
\* conditions of the very-low-run, low-run and low-ratio tiers, has appended
\* 3.999, a value only the very-low-run tier produces.
C27_Witness ==
    /\ pc[1] = "microVariation"
    /\ Len(recentMultipliers) >= 11
    /\ recentMultipliers[Len(recentMultipliers)] = 3999
    /\ \A i \in (Len(recentMultipliers) - 5)..(Len(recentMultipliers) - 1) :
          recentMultipliers[i] = 1100

\* C28: the value a pipeline run appends to the history window is the value
\* it returns and stores as the multiplier of the round.
C28_HistoryHoldsEmittedValue ==
    multiplierBuffer # << >>
        => recentMultipliers[Len(recentMultipliers)] = LatestMultiplier

\* No run-based tier (floor run, very-low run, low run) applies to the
\* window.
NoRunTier(hist) ==
    Len(hist) < 10 \/ (~FloorRun(hist) /\ ~VeryLowRun(hist) /\ ~LowRun(hist))

\* C29: a pending value of 1.5 or more that matches no run-based tier is
\* passed through unchanged, so the low-ratio tiers (7 of the last 10, 10 of
\* the last 15) override only a pending value below 1.5.
C29_LowRatioOnlyWhenPendingLow ==
    [][\A p \in Procs :
          (Corrects(p) /\ NoRunTier(recentMultipliers) /\ loc[p].multiplier >= 1500)
              => Appended = loc[p].multiplier]_vars

\* C30: the value applyBiasCorrection appends to the history is at least the
\* pending value it received.
C30_CorrectorNeverLowers ==
    [][\A p \in Procs : Corrects(p) => Appended >= loc[p].multiplier]_vars

\* C30, amended: the value appended is at least the smaller of the pending
\* value and 1.4, the bottom of the lowest relief range; a tier may replace a
\* pending value by a lower one from its range.
C30_CorrectorKeepsReliefFloor ==
    [][\A p \in Procs :
          Corrects(p) => Appended >= Min(loc[p].multiplier, 1400)]_vars

\* A call on the 15-entry window with 10 lows, of which 5 in the last 10 and
\* 2 in the last 5, has replaced a pending value below 1.5 by 1.4, the bottom
\* of the lowest relief range.
C30_Witness ==
    /\ pc[1] = "microVariation"
    /\ Len(recentMultipliers) = 16
    /\ LowRatio15(SubSeq(recentMultipliers, 1, 15))
    /\ ~LowRatio10(SubSeq(recentMultipliers, 1, 15))
    /\ recentMultipliers[16] = 1400
    /\ loc[1].multiplier = 1400


\* Positions at which an invocation has ended through CallerResume: for the
\* force-generation route, the response success: true of lines 1360-1364.
Resumed == {"conflict", "insertError", "bufferEmpty", "complete"}

\* The force-generation request p is answered with success: true in this step.
AnswersSuccess(p) == kind[p] = "force" /\ pc[p] \in InBatch /\ pc'[p] \in Resumed

\* The insert calls of invocation p that succeeded.
PersistedBy(p) ==
    {i \in 1..Len(insertLog') : insertLog'[i].p = p /\ insertLog'[i].result = "ok"}

\* C31: a force-generation request answered with success: true has persisted
\* exactly one batch of BATCH_SIZE rounds, the currentRound it reports is the
\* last round of that batch, and its cycle did not end in a conflict abort or
\* an insert failure.
C31_ForceSuccessMeansPersisted ==
    [][\A p \in Procs :
          AnswersSuccess(p) =>
              /\ pc'[p] \notin {"conflict", "insertError"}
              /\ \E i \in PersistedBy(p) :
                    /\ PersistedBy(p) = {i}
                    /\ Len(insertLog'[i].rows) = BATCH_SIZE
                    /\ currentRound' = insertLog'[i].rows[BATCH_SIZE].round_number]_vars


\* Some cycle of this process has aborted on a round-range conflict.
ConflictAborted == \E p \in Procs : pc[p] = "conflict"

\* C32: once a cycle has aborted on a round-range conflict (rows are never
\* deleted from the table), nextRoundToGenerate does not change again, no
\* further insert call is made or succeeds, and no further POST /queue is
\* made.
C32_ConflictIsPermanent ==
    [][ConflictAborted =>
          /\ nextRoundToGenerate' = nextRoundToGenerate
          /\ db' = db
          /\ Len(insertLog') = Len(insertLog)
          /\ Len(notifyLog') = Len(notifyLog)]_vars


\* Number of floor values among the last 8 entries of a window.
FloorsInLast8(hist) == CountEq(Last(hist, 8), 1010)

\* C33: whenever the history window holds at least 8 entries and at least 2
\* of its last 8 are exactly 1.01, the value the next pipeline run appends is
\* at least 1.5; and a window of at least 8 entries with at most 2 floor
\* values among its last 8 stays such a window after a run, so that the
\* severe relief tier (3 or more floor values in the last 5) does not fire.
C33_TwoFloorsForceRelief ==
    [][PipelineRan =>
          LET hist == recentMultipliers
          IN  /\ (Len(hist) >= 8 /\ FloorsInLast8(hist) >= 2) => Appended >= 1500
              /\ (Len(hist) >= 8 /\ FloorsInLast8(hist) <= 2)
                    => /\ FloorsInLast8(recentMultipliers') <= 2
                       /\ ~(Len(hist) >= 10 /\ FloorRun(hist))]_vars

\* A run on a window of 8 entries with exactly 2 floor values has appended
\* 2.0, the bottom of the range the loss patterns force.
C33_Witness ==
    /\ Len(multiplierBuffer) = 1
    /\ Len(recentMultipliers) = 9
    /\ FloorsInLast8(SubSeq(recentMultipliers, 1, 8)) = 2
    /\ recentMultipliers[9] = 2000

\* C34: whenever the history window holds at least 10 entries and its last 4
\* entries are all at or below 1.3, the value the next pipeline run appends is
\* at least 1.8, so the last 5 entries of the window after the run are not
\* all at or below 1.3.
C34_FourLowsForceRelief ==
    [][PipelineRan =>
          LET hist == recentMultipliers
          IN  (Len(hist) >= 10 /\ CountLE(Last(hist, 4), 1300) = 4)
                  => /\ Appended >= 1800
                     /\ CountLE(Last(recentMultipliers', 5), 1300) < 5]_vars

\* A run on a window of 10 entries that ends in exactly 4 lows, none of them
\* very low, has appended 1.8, the bottom of the range of the low-run tier.
C34_Witness ==
    /\ Len(multiplierBuffer) = 1
    /\ Len(recentMultipliers) = 11
    /\ \A i \in 7..10 : recentMultipliers[i] = 1300
    /\ recentMultipliers[6] > 1300
    /\ recentMultipliers[11] = 1800


\* The insert calls that have succeeded.
SucceededInserts == {i \in 1..Len(insertLog') : insertLog'[i].result = "ok"}

\* C35: in the interval-based generator every insert call carries exactly
\* BATCH_SIZE rows, no round is in the rows of two insert calls that
\* succeeded, and every round of a POST /queue payload is persisted when the
\* call is made.
C35_IntervalBatchesSound ==
    [][/\ \A i \in 1..Len(insertLog') : Len(insertLog'[i].rows) = BATCH_SIZE
       /\ \A i, j \in SucceededInserts :
             i # j => RoundNumbers(insertLog'[i].rows)
                          \cap RoundNumbers(insertLog'[j].rows) = {}
       /\ NotifyCalled
             => RoundNumbers(notifyLog'[Len(notifyLog')].multipliers) \subseteq db']_vars

====
